---- MODULE Spec2Model ----
(***************************************************************************)
(* Model of the license-key crate (src/src/lib.rs): the key layout, the    *)
(* checksum, the hex codec, Generator::generate, Verifier::block and       *)
(* Verifier::verify.                                                       *)
(*                                                                         *)
(* A u64 is held as four 16-bit limbs, most significant first, because     *)
(* TLC's integers are 32 bits wide; a u8 and a u16 are plain integers.     *)
(* A text is a sequence of one-character strings.  A panic of the program  *)
(* is the value "Panic" of an operator and the variable fault.             *)
(***************************************************************************)
EXTENDS Integers, Sequences, FiniteSets, TLC

VARIABLES
    iv,         \* Generator.iv: the generator's triplets
    checks,     \* Verifier.checks: the verifier's ByteChecks
    blocklist,  \* Verifier.blocklist: Vec<u64>, in push order
    blocked,    \* history: the set of seeds ever passed to block
    hasKey,     \* whether a LicenseKey value exists
    key,        \* LicenseKey.bytes of that key
    origin,     \* history: how the key came to be (kind, seed, pos, old)
    input,      \* the text last handed to LicenseKey::parse
    result,     \* the Status the last verify returned, "None" before/after
    fault,      \* "none", or the call that panicked: "parse", "verify"
    csInput,    \* calculate_checksum: its argument
    csPos,      \* calculate_checksum: bytes consumed so far
    csAcc,      \* calculate_checksum: left, right (and an overflow record)
    csOut       \* calculate_checksum: the returned bytes, <<>> while running

vars == << iv, checks, blocklist, blocked, hasKey, key, origin, input,
           result, fault, csInput, csPos, csAcc, csOut >>

keyVars == << iv, checks, blocklist, blocked, hasKey, key, origin, input,
              result, fault >>

csVars == << csInput, csPos, csAcc, csOut >>

(***************************************************************************)
(* Bounds of the model.                                                    *)
(***************************************************************************)
MaxIV == 2      \* longest IV list of a generator
MaxChecks == 2  \* most ByteChecks of a verifier
MaxBlock == 2   \* most calls of block
MaxText == 4    \* longest short text handed to parse
MaxLen == 3     \* longest input of the stepped checksum

(***************************************************************************)
(* Program constants.                                                      *)
(***************************************************************************)
SEED_BYTE_LENGTH == 8
CHECKSUM_BYTE_LENGTH == 2
SEGMENT_BYTE_LENGTH == 1

U8 == 256
U16 == 65536

(***************************************************************************)
(* u64 values as limbs.                                                    *)
(***************************************************************************)
U64(n) == << 0, 0, 0, n >>

RECURSIVE Xor(_, _)
Xor(a, b) ==
    IF a = 0 THEN b
    ELSE IF b = 0 THEN a
    ELSE (((a % 2) + (b % 2)) % 2) + 2 * Xor(a \div 2, b \div 2)

Xor64(x, y) == [i \in 1..4 |-> Xor(x[i], y[i])]

\* u64::to_be_bytes
to_be_bytes(x) ==
    << x[1] \div U8, x[1] % U8, x[2] \div U8, x[2] % U8,
       x[3] \div U8, x[3] % U8, x[4] \div U8, x[4] % U8 >>

\* u64::to_le_bytes, the other byte order
to_le_bytes(x) ==
    << x[4] % U8, x[4] \div U8, x[3] % U8, x[3] \div U8,
       x[2] % U8, x[2] \div U8, x[1] % U8, x[1] \div U8 >>

\* u64::from_be_bytes of eight bytes
from_be_bytes(b) ==
    << b[1] * U8 + b[2], b[3] * U8 + b[4], b[5] * U8 + b[6], b[7] * U8 + b[8] >>

(***************************************************************************)
(* KeyHasher::hash as the crate's tests, examples and docs implement it:   *)
(* ((seed ^ a ^ b ^ c) & 0xFF) as u8.                                      *)
(***************************************************************************)
hash(seed, a, b, c) == Xor64(Xor64(Xor64(seed, a), b), c)[4] % U8

(***************************************************************************)
(* calculate_checksum.  ChecksumStep is one turn of its loop in u16       *)
(* arithmetic; overflow records whether an addition left the u16 range.    *)
(***************************************************************************)
ChecksumInit == [left |-> 86, right |-> 175, overflow |-> FALSE]

ChecksumStepNoLeftReduce(acc, byte) ==
    LET r1 == acc.right + byte
        r2 == IF (r1 % U16) > 255 THEN (r1 % U16) - 255 ELSE r1 % U16
        l1 == acc.left + r2
    IN  [left |-> l1 % U16, right |-> r2,
         overflow |-> acc.overflow \/ r1 >= U16 \/ l1 >= U16]

ChecksumStep(acc, byte) ==
    LET r1 == acc.right + byte
        r2 == IF (r1 % U16) > 255 THEN (r1 % U16) - 255 ELSE r1 % U16
        l1 == acc.left + r2
        l2 == IF (l1 % U16) > 255 THEN (l1 % U16) - 255 ELSE l1 % U16
    IN  [left |-> l2, right |-> r2,
         overflow |-> acc.overflow \/ r1 >= U16 \/ l1 >= U16]

\* ((left << 8) + right).to_be_bytes()
ChecksumFinish(acc) ==
    LET v == (((acc.left * U8) % U16) + acc.right) % U16
    IN  << v \div U8, v % U8 >>

\* whether (left << 8) + right leaves the u16 range
FinishOverflow(acc) == ((acc.left * U8) % U16) + acc.right >= U16

RECURSIVE ChecksumFold(_, _, _)
ChecksumFold(acc, bytes, i) ==
    IF i > Len(bytes) THEN acc
    ELSE ChecksumFold(ChecksumStep(acc, bytes[i]), bytes, i + 1)

calculate_checksum_skip_first(bytes) ==
    ChecksumFinish(ChecksumFold(ChecksumInit, bytes, 2))

calculate_checksum(bytes) ==
    ChecksumFinish(ChecksumFold(ChecksumInit, bytes, 1))

(***************************************************************************)
(* HexFormat.  hex::encode writes two lowercase digits a byte; hex::decode *)
(* takes digits of either case and fails on an odd length or on any other  *)
(* character.                                                              *)
(***************************************************************************)
HexLower == << "0", "1", "2", "3", "4", "5", "6", "7",
               "8", "9", "a", "b", "c", "d", "e", "f" >>

HexUpper == << "0", "1", "2", "3", "4", "5", "6", "7",
               "8", "9", "A", "B", "C", "D", "E", "F" >>

HexChars == { HexLower[d] : d \in 1..16 } \cup { HexUpper[d] : d \in 1..16 }

\* the value of each hex digit
HexTable ==
    [c \in HexChars |->
        IF \E d \in 1..16 : HexLower[d] = c
        THEN (CHOOSE d \in 1..16 : HexLower[d] = c) - 1
        ELSE (CHOOSE d \in 1..16 : HexUpper[d] = c) - 1]

\* the value of a hex digit, -1 for any other character
HexVal(c) == IF c \in HexChars THEN HexTable[c] ELSE -1

hex_encode(bytes) ==
    [i \in 1..(2 * Len(bytes)) |->
        IF i % 2 = 1 THEN HexLower[(bytes[(i + 1) \div 2] \div 16) + 1]
                     ELSE HexLower[(bytes[i \div 2] % 16) + 1]]

hex_decode(text) ==
    IF Len(text) % 2 # 0 THEN [ok |-> FALSE, bytes |-> << >>]
    ELSE IF \E i \in 1..Len(text) : HexVal(text[i]) < 0
    THEN [ok |-> FALSE, bytes |-> << >>]
    ELSE [ok |-> TRUE,
          bytes |-> [i \in 1..(Len(text) \div 2) |->
                        HexVal(text[2 * i - 1]) * 16 + HexVal(text[2 * i])]]

\* HexFormat::serialize
serialize(bytes) == hex_encode(bytes)

\* a decoder that swallows the error instead of unwrapping it
deserialize_lenient(text) == [panic |-> FALSE, bytes |-> hex_decode(text).bytes]

\* HexFormat::deserialize: hex::decode(input).unwrap()
deserialize(text) ==
    LET r == hex_decode(text)
    IN  [panic |-> ~r.ok, bytes |-> r.bytes]

\* LicenseKey::parse::<HexFormat>
parse(text) == deserialize(text)

(***************************************************************************)
(* LicenseKey accessors.  Each returns [panic, ...]: usize subtraction     *)
(* below zero panics in a debug build and wraps in a release build, where  *)
(* the slice or index that follows is out of range and panics as well.     *)
(***************************************************************************)
get_byte_short(bytes, ordinal) ==
    LET index == SEED_BYTE_LENGTH + ordinal * SEGMENT_BYTE_LENGTH
    IN  IF Len(bytes) < 3 THEN [panic |-> TRUE, some |-> FALSE, value |-> 0]
        ELSE IF index > Len(bytes) - 4
        THEN [panic |-> FALSE, some |-> FALSE, value |-> 0]
        ELSE [panic |-> FALSE, some |-> TRUE, value |-> bytes[index + 1]]

get_byte_shifted(bytes, ordinal) ==
    LET index == SEED_BYTE_LENGTH + (ordinal + 1) * SEGMENT_BYTE_LENGTH
    IN  IF Len(bytes) < 3 THEN [panic |-> TRUE, some |-> FALSE, value |-> 0]
        ELSE IF index > Len(bytes) - 3
        THEN [panic |-> FALSE, some |-> FALSE, value |-> 0]
        ELSE [panic |-> FALSE, some |-> TRUE, value |-> bytes[index + 1]]

get_byte(bytes, ordinal) ==
    LET index == SEED_BYTE_LENGTH + ordinal * SEGMENT_BYTE_LENGTH
    IN  IF Len(bytes) < 3 THEN [panic |-> TRUE, some |-> FALSE, value |-> 0]
        ELSE IF index > Len(bytes) - 3
        THEN [panic |-> FALSE, some |-> FALSE, value |-> 0]
        ELSE [panic |-> FALSE, some |-> TRUE, value |-> bytes[index + 1]]

get_checksum(bytes) ==
    IF Len(bytes) < CHECKSUM_BYTE_LENGTH THEN [panic |-> TRUE, value |-> << >>]
    ELSE [panic |-> FALSE,
          value |-> SubSeq(bytes, Len(bytes) - CHECKSUM_BYTE_LENGTH + 1, Len(bytes))]

get_seed(bytes) ==
    IF Len(bytes) < SEED_BYTE_LENGTH THEN [panic |-> TRUE, value |-> U64(0)]
    ELSE [panic |-> FALSE, value |-> from_be_bytes(SubSeq(bytes, 1, SEED_BYTE_LENGTH))]

\* LicenseKey::calculate_checksum
key_calculate_checksum(bytes) ==
    IF Len(bytes) < CHECKSUM_BYTE_LENGTH THEN [panic |-> TRUE, value |-> << >>]
    ELSE [panic |-> FALSE,
          value |-> calculate_checksum(SubSeq(bytes, 1, Len(bytes) - CHECKSUM_BYTE_LENGTH))]

(***************************************************************************)
(* Generator::generate.                                                    *)
(***************************************************************************)
generate_le(ivs, seed) ==
    LET body == to_le_bytes(seed)
                \o [i \in 1..Len(ivs) |-> hash(seed, ivs[i][1], ivs[i][2], ivs[i][3])]
    IN  body \o calculate_checksum(body)

generate(ivs, seed) ==
    LET body == to_be_bytes(seed)
                \o [i \in 1..Len(ivs) |-> hash(seed, ivs[i][1], ivs[i][2], ivs[i][3])]
    IN  body \o calculate_checksum(body)

(***************************************************************************)
(* ByteCheck::new, Verifier::block, Verifier::verify.                      *)
(***************************************************************************)
ByteCheck(ordinal, t) == [ordinal |-> ordinal, a |-> t[1], b |-> t[2], c |-> t[3]]

block_dropped(blist, seed) == blist

block(blist, seed) == Append(blist, seed)

\* the loop over self.checks, from the i-th check on
RECURSIVE run_checks_skip_absent(_, _, _, _)
run_checks_skip_absent(bytes, seed, chks, i) ==
    IF i > Len(chks) THEN "Valid"
    ELSE LET got == get_byte(bytes, chks[i].ordinal)
         IN  IF got.panic THEN "Panic"
             ELSE IF ~got.some THEN run_checks_skip_absent(bytes, seed, chks, i + 1)
             ELSE IF got.value # hash(seed, chks[i].a, chks[i].b, chks[i].c)
             THEN "Forged"
             ELSE run_checks_skip_absent(bytes, seed, chks, i + 1)

RECURSIVE run_checks(_, _, _, _)
run_checks(bytes, seed, chks, i) ==
    IF i > Len(chks) THEN "Valid"
    ELSE LET got == get_byte(bytes, chks[i].ordinal)
         IN  IF got.panic THEN "Panic"
             ELSE IF ~got.some THEN "Invalid"
             ELSE IF got.value # hash(seed, chks[i].a, chks[i].b, chks[i].c)
             THEN "Forged"
             ELSE run_checks(bytes, seed, chks, i + 1)

verify_block_first(bytes, chks, blist) ==
    LET sum == key_calculate_checksum(bytes)
        stored == get_checksum(bytes)
        seed == get_seed(bytes)
    IN  IF seed.panic THEN "Panic"
        ELSE IF \E i \in 1..Len(blist) : blist[i] = seed.value THEN "Blocked"
        ELSE IF sum.panic \/ stored.panic THEN "Panic"
        ELSE IF sum.value # stored.value THEN "Invalid"
        ELSE run_checks(bytes, seed.value, chks, 1)

verify(bytes, chks, blist) ==
    LET sum == key_calculate_checksum(bytes)
        stored == get_checksum(bytes)
        seed == get_seed(bytes)
    IN  IF sum.panic \/ stored.panic THEN "Panic"
        ELSE IF sum.value # stored.value THEN "Invalid"
        ELSE IF seed.panic THEN "Panic"
        ELSE IF \E i \in 1..Len(blist) : blist[i] = seed.value THEN "Blocked"
        ELSE run_checks(bytes, seed.value, chks, 1)

(***************************************************************************)
(* The inputs the model draws from.                                        *)
(***************************************************************************)
Triplet(a, b, c) == << U64(a), U64(b), U64(c) >>

\* the IV list of the crate's tests
TestIV == << Triplet(114, 83, 170), Triplet(60, 208, 27),
             Triplet(69, 14, 202), Triplet(61, 232, 54) >>

\* 12345 (the tests' seed) and 1234567891011121314 (the docs' seed)
Seeds == { U64(12345), << 4386, 4340, 45778, 12450 >> }

\* the seed the tests block
BlockSeeds == { U64(12345) }

IVLists == { SubSeq(TestIV, 1, n) : n \in 0..MaxIV }

\* the matching check of every ordinal up to MaxIV (the last one is out of
\* range for every IV list), and one check with the wrong triplet
CheckPool ==
    { ByteCheck(o, TestIV[o + 1]) : o \in 0..MaxIV } \cup { ByteCheck(0, TestIV[2]) }

CheckLists == UNION { [1..n -> CheckPool] : n \in 0..MaxChecks }

TamperBytes == { 0, 1, 255 }

\* the docs' key text, 112210F4B2D230A229552341E723
DocKeyText == << "1", "1", "2", "2", "1", "0", "F", "4", "B", "2", "D", "2",
                 "3", "0", "A", "2", "2", "9", "5", "5", "2", "3", "4", "1",
                 "E", "7", "2", "3" >>

Alphabet == { "5", "6", "a", "F", "g" }

Texts == UNION { [1..n -> Alphabet] : n \in 0..MaxText } \cup { DocKeyText }

CsBytes == { 0, 1, 80, 81, 255 }

CsInputs == UNION { [1..n -> CsBytes] : n \in 0..MaxLen }

NoOrigin == [kind |-> "none", seed |-> U64(0), pos |-> 0, old |-> 0]

Replace(bytes, pos, v) == [bytes EXCEPT ![pos] = v]

(***************************************************************************)
(* Initial states.                                                         *)
(***************************************************************************)
CsIdle ==
    /\ csInput = << >>
    /\ csPos = 0
    /\ csAcc = ChecksumInit
    /\ csOut = << >>

NoKeyYet ==
    /\ blocklist = << >>
    /\ blocked = {}
    /\ hasKey = FALSE
    /\ key = << >>
    /\ origin = NoOrigin
    /\ input = << >>
    /\ result = "None"
    /\ fault = "none"

\* Generator::new and Verifier::new
Init ==
    /\ iv \in IVLists
    /\ checks \in CheckLists
    /\ NoKeyYet
    /\ CsIdle

\* Verifier::new alone: keys come from text
InitParse ==
    /\ iv = << >>
    /\ checks \in { << >>, << ByteCheck(0, TestIV[1]) >> }
    /\ NoKeyYet
    /\ CsIdle

\* a call of calculate_checksum
InitChecksum ==
    /\ iv = << >>
    /\ checks = << >>
    /\ NoKeyYet
    /\ csInput \in CsInputs
    /\ csPos = 0
    /\ csAcc = ChecksumInit
    /\ csOut = << >>

(***************************************************************************)
(* Actions.                                                                *)
(***************************************************************************)
\* Generator::generate(seed)
Generate(seed) ==
    /\ fault = "none"
    /\ key' = generate(iv, seed)
    /\ hasKey' = TRUE
    /\ origin' = [kind |-> "generated", seed |-> seed, pos |-> 0, old |-> 0]
    /\ input' = << >>
    /\ result' = "None"
    /\ UNCHANGED << iv, checks, blocklist, blocked, fault >>
    /\ UNCHANGED csVars

\* LicenseKey::parse of text; a panic ends the program and leaves no key
ParseText(text, how, pos, old) ==
    LET r == parse(text)
    IN  /\ input' = text
        /\ result' = "None"
        /\ IF r.panic
           THEN /\ fault' = "parse"
                /\ hasKey' = FALSE
                /\ key' = << >>
                /\ origin' = NoOrigin
           ELSE /\ fault' = "none"
                /\ hasKey' = TRUE
                /\ key' = r.bytes
                /\ origin' = [kind |-> how, seed |-> origin.seed, pos |-> pos, old |-> old]
        /\ UNCHANGED << iv, checks, blocklist, blocked >>
        /\ UNCHANGED csVars

\* parse of a short text or of the docs' key, as the verifier example parses
\* one text
Parse(text) ==
    /\ fault = "none"
    /\ ~hasKey
    /\ ParseText(text, "parsed", 0, 0)

\* parse of the text of a generated key with one byte of its seed or payload
\* replaced and its checksum bytes kept
ParseTampered(pos, v) ==
    /\ fault = "none"
    /\ origin.kind = "generated"
    /\ pos \in 1..(Len(key) - CHECKSUM_BYTE_LENGTH)
    /\ v # key[pos]
    /\ ParseText(serialize(Replace(key, pos, v)), "tampered", pos, key[pos])

\* parse of the text of a generated key with one payload byte replaced and
\* the checksum recomputed over the new bytes
ParseForged(pos, v) ==
    /\ fault = "none"
    /\ origin.kind = "generated"
    /\ pos \in (SEED_BYTE_LENGTH + 1)..(Len(key) - CHECKSUM_BYTE_LENGTH)
    /\ v # key[pos]
    /\ LET body == SubSeq(Replace(key, pos, v), 1, Len(key) - CHECKSUM_BYTE_LENGTH)
       IN  ParseText(serialize(body \o calculate_checksum(body)), "forged", pos, key[pos])

\* Verifier::block(seed)
Block(seed) ==
    /\ fault = "none"
    /\ Len(blocklist) < MaxBlock
    /\ blocklist' = block(blocklist, seed)
    /\ blocked' = blocked \cup { seed }
    /\ result' = "None"
    /\ UNCHANGED << iv, checks, hasKey, key, origin, input, fault >>
    /\ UNCHANGED csVars

\* Verifier::verify(&key)
Verify ==
    /\ fault = "none"
    /\ hasKey
    /\ LET r == verify(key, checks, blocklist)
       IN  IF r = "Panic"
           THEN /\ fault' = "verify"
                /\ result' = "None"
           ELSE /\ fault' = "none"
                /\ result' = r
    /\ UNCHANGED << iv, checks, blocklist, blocked, hasKey, key, origin, input >>
    /\ UNCHANGED csVars

\* one turn of calculate_checksum's loop
CsStep ==
    /\ csOut = << >>
    /\ csPos < Len(csInput)
    /\ csAcc' = ChecksumStep(csAcc, csInput[csPos + 1])
    /\ csPos' = csPos + 1
    /\ UNCHANGED << csInput, csOut >>
    /\ UNCHANGED keyVars

\* calculate_checksum's return
CsReturn ==
    /\ csOut = << >>
    /\ csPos = Len(csInput)
    /\ csOut' = ChecksumFinish(csAcc)
    /\ csAcc' = [csAcc EXCEPT !.overflow = @ \/ FinishOverflow(csAcc)]
    /\ UNCHANGED << csInput, csPos >>
    /\ UNCHANGED keyVars

GenerateAny == \E seed \in Seeds : Generate(seed)

ParseTamperedAny ==
    \E pos \in 1..(SEED_BYTE_LENGTH + MaxIV) : \E v \in TamperBytes : ParseTampered(pos, v)

ParseForgedAny ==
    \E pos \in 1..(SEED_BYTE_LENGTH + MaxIV) : \E v \in TamperBytes : ParseForged(pos, v)

BlockAny == \E seed \in BlockSeeds : Block(seed)

ParseAny == \E text \in Texts : Parse(text)

Next ==
    \/ GenerateAny
    \/ ParseTamperedAny
    \/ ParseForgedAny
    \/ BlockAny
    \/ Verify

NextParse ==
    \/ ParseAny
    \/ BlockAny
    \/ Verify

NextChecksum ==
    \/ CsStep
    \/ CsReturn

Spec == Init /\ [][Next]_vars

SpecParse == InitParse /\ [][NextParse]_vars

SpecChecksum == InitChecksum /\ [][NextChecksum]_vars

(***************************************************************************)
(* Properties.                                                             *)
(***************************************************************************)
\* verify has been called on the current key with the current verifier
Verified == result # "None" \/ fault = "verify"

LongEnough == hasKey /\ Len(key) >= SEED_BYTE_LENGTH + CHECKSUM_BYTE_LENGTH

StoredChecksum == SubSeq(key, Len(key) - 1, Len(key))

PrefixChecksum == calculate_checksum(SubSeq(key, 1, Len(key) - 2))

KeySeed == from_be_bytes(SubSeq(key, 1, 8))

\* every check is ByteCheck(i, V[i]) for an ordinal i of the IV list V
ChecksFromIV ==
    \A i \in 1..Len(checks) :
        /\ checks[i].ordinal < Len(iv)
        /\ << checks[i].a, checks[i].b, checks[i].c >> = iv[checks[i].ordinal + 1]

\* C1: a generated key verifies Valid on a verifier that never blocked a seed
\* and whose checks are any selection of the generator's (ordinal, triplet)
\* pairs, in any order and with repeats.
C1_GeneratedKeyValid ==
    (Verified /\ origin.kind = "generated" /\ blocked = {} /\ ChecksFromIV)
        => result = "Valid"

C1_Witness ==
    /\ result = "Valid"
    /\ origin.kind = "generated"
    /\ blocked = {}
    /\ ChecksFromIV
    /\ Len(checks) = 2
    /\ checks[1].ordinal > checks[2].ordinal

\* C2: for a key of 10 bytes or more with a correct checksum, verify returns
\* Blocked exactly when the key's seed was passed to block before, whatever
\* the checks are; and a call of block(s) leaves the verify result of every
\* key with another seed as it was.
C2_BlockedIff ==
    (Verified /\ LongEnough /\ StoredChecksum = PrefixChecksum)
        => (result = "Blocked" <=> KeySeed \in blocked)

C2_BlockKeepsOthers ==
    \A s \in BlockSeeds :
        (/\ blocklist' # blocklist
         /\ blocked' = blocked \cup { s }
         /\ LongEnough
         /\ KeySeed # s)
            => verify(key, checks, blocklist') = verify(key, checks, blocklist)

C2_Blocklist == [] C2_BlockedIff /\ [][C2_BlockKeepsOthers]_vars

C2_Witness ==
    /\ result = "Blocked"
    /\ run_checks(key, KeySeed, checks, 1) # "Valid"

\* C3: a key of 10 bytes or more whose last two bytes differ from the checksum
\* of the bytes before them verifies Invalid, blocked seed or not, whatever
\* the checks are.
C3_ChecksumGate ==
    (Verified /\ LongEnough /\ StoredChecksum # PrefixChecksum)
        => result = "Invalid"

C3_Witness ==
    /\ result = "Invalid"
    /\ LongEnough
    /\ StoredChecksum # PrefixChecksum
    /\ KeySeed \in blocked

\* the check's byte lies in or past the checksum region
Absent(c) == SEED_BYTE_LENGTH + c.ordinal >= Len(key) - CHECKSUM_BYTE_LENGTH

Mismatch(c) == key[SEED_BYTE_LENGTH + c.ordinal + 1] # hash(KeySeed, c.a, c.b, c.c)

Failing == { i \in 1..Len(checks) : Absent(checks[i]) \/ Mismatch(checks[i]) }

FirstFailing == CHOOSE i \in Failing : \A j \in Failing : i <= j

\* C4: with a correct checksum and an unblocked seed, the first check in
\* configuration order that does not pass decides: Invalid if its byte is
\* absent, Forged if it differs from the hash; Valid only if every check
\* passes; no fault.
C4_FirstFailingCheck ==
    (Verified /\ LongEnough /\ StoredChecksum = PrefixChecksum /\ KeySeed \notin blocked)
        => /\ fault = "none"
           /\ result = IF Failing = {} THEN "Valid"
                       ELSE IF Absent(checks[FirstFailing]) THEN "Invalid"
                       ELSE "Forged"

C4_Witness ==
    /\ result = "Invalid"
    /\ LongEnough
    /\ StoredChecksum = PrefixChecksum
    /\ KeySeed \notin blocked
    /\ Len(checks) = 2
    /\ Absent(checks[1])
    /\ ~Absent(checks[2])
    /\ Mismatch(checks[2])

\* C5 as claimed: a generated key with any one byte of its seed or payload
\* replaced, checksum bytes kept, verifies Invalid.
C5_AnyTamperInvalid ==
    (Verified /\ origin.kind = "tampered") => result = "Invalid"

\* C5 as amended: it verifies Invalid unless the old and the new byte are
\* 0x00 and 0xFF, which the subtract-255 reduction does not tell apart.
C5_TamperInvalidUnless ==
    (Verified /\ origin.kind = "tampered" /\ { origin.old, key[origin.pos] } # { 0, 255 })
        => result = "Invalid"

C5_Witness ==
    /\ result = "Invalid"
    /\ origin.kind = "tampered"
    /\ origin.pos <= SEED_BYTE_LENGTH
    /\ origin.old = 0
    /\ key[origin.pos] = 1

\* C6 as claimed: verify never faults, whatever the key's length.
C6_VerifyNeverFaults == fault # "verify"

WellFormedHex(text) ==
    /\ Len(text) % 2 = 0
    /\ \A i \in 1..Len(text) :
          text[i] \in { "0", "1", "2", "3", "4", "5", "6", "7", "8", "9",
                        "a", "b", "c", "d", "e", "f", "A", "B", "C", "D", "E", "F" }

\* C7: parse of a text that is not well-formed hex fails in the decoder: no
\* key exists afterwards and no Status is ever produced for it.
C7_MalformedHexFails ==
    ~WellFormedHex(input) => (fault = "parse" /\ ~hasKey /\ result = "None")

C7_Witness ==
    /\ fault = "parse"
    /\ Len(input) = 2

\* C8: a generated key is the seed's 8 big-endian bytes, one hash byte per
\* triplet in list order, and the checksum of those 8 + N bytes.
C8_GenerateLayout ==
    origin.kind = "generated"
        => /\ fault = "none"
           /\ Len(key) = 8 + Len(iv) + 2
           /\ \A j \in 1..4 : key[2 * j - 1] * 256 + key[2 * j] = origin.seed[j]
           /\ \A i \in 1..Len(iv) :
                 key[8 + i] = hash(origin.seed, iv[i][1], iv[i][2], iv[i][3])
           /\ StoredChecksum = calculate_checksum(SubSeq(key, 1, 8 + Len(iv)))

C8_Witness ==
    /\ origin.kind = "generated"
    /\ Len(iv) = 2
    /\ origin.seed[1] # 0

\* C9: calculate_checksum starts from 0x56 and 0xAF, keeps both accumulators
\* within 0..255 after every byte, never leaves the u16 range, and returns
\* [left, right].
C9_ChecksumAccumulators ==
    /\ csAcc.left \in 0..255
    /\ csAcc.right \in 0..255
    /\ ~csAcc.overflow
    /\ csPos = 0 => (csAcc.left = 86 /\ csAcc.right = 175)
    /\ csOut # << >> => csOut = << csAcc.left, csAcc.right >>

C9_Witness ==
    /\ csOut # << >>
    /\ csPos = 3
    /\ csInput[1] = 81
    /\ csInput[3] = 255

\* the ordinals some check names
Named == { checks[i].ordinal : i \in 1..Len(checks) }

PayloadLen == Len(key) - SEED_BYTE_LENGTH - CHECKSUM_BYTE_LENGTH

\* the keys of the current key's length and seed that agree with it on every
\* named ordinal, with a correct checksum
Variants ==
    { LET body == SubSeq(key, 1, SEED_BYTE_LENGTH) \o p
      IN  body \o calculate_checksum(body) :
        p \in { q \in [1..PayloadLen -> TamperBytes \cup { key[i] : i \in 9..(Len(key) - 2) }] :
                  \A o \in 1..PayloadLen :
                      \/ q[o] = key[SEED_BYTE_LENGTH + o]
                      \/ (o - 1) \notin Named /\ q[o] \in TamperBytes } }

\* C10: keys of one length and seed, each with a correct checksum, that agree
\* on every ordinal a check names get the same Status; so a generated key
\* with an unnamed payload byte replaced and the checksum recomputed verifies
\* as the generated key does.
C10_UncheckedBytesIgnored ==
    /\ (Verified /\ LongEnough /\ StoredChecksum = PrefixChecksum)
          => \A k \in Variants : verify(k, checks, blocklist) = result
    /\ (Verified /\ origin.kind = "forged" /\ (origin.pos - SEED_BYTE_LENGTH - 1) \notin Named)
          => verify(generate(iv, origin.seed), checks, blocklist) = result

C10_Witness ==
    /\ result = "Valid"
    /\ origin.kind = "forged"
    /\ (origin.pos - SEED_BYTE_LENGTH - 1) \notin Named
    /\ checks # << >>

====
